---- MODULE Spec2Model ----
(***************************************************************************)
(* A model of verisure/session.py: the Session object of the Verisure app  *)
(* API client.  The Session's fields are the shared state; every public    *)
(* method is one call that sends its request(s), blocks inside requests.*  *)
(* until the transport delivers a response or raises, and then runs the    *)
(* rest of the method (validate_response, deserialize, assignments).       *)
(***************************************************************************)
EXTENDS Integers, Sequences, FiniteSets, TLC

\* ---------------------------------------------------------------- bounds
\* Tokens and installation ids the server can hand out are 1..MaxId.
MaxId == 2
\* Longest list a response body deserializes to.
MaxLen == 2

\* ------------------------------------------------------------- constants
\* Python's None for the integer-valued fields _vid and _giid.
None == 0
RESPONSE_TIMEOUT == 10

Ids == 1..MaxId
Callers == {1, 2}
\* The one caller of the synchronous specification.
MainCallers == {1}
MainCaller == CHOOSE c \in MainCallers : TRUE

Usernames == {"user"}
Passwords == {"secret"}
DeviceLabels == {"switch1", "switch2"}
PlugStates == BOOLEAN
ArmStates == {"ARMED_AWAY", "DISARMED"}
LockStates == {"lock", "unlock"}
Codes == {1234}
PageSizes == {15}
Offsets == {0}

\* ------------------------------------------------------------------ URLs
\* A URL template is its text and the replacement fields the text holds.
BASE_URL == "https://e-api02.verisure.com/xbn/2/"
INSTALLATION_URL == [path |-> "installation/{guid}/", fields |-> {"guid"}]
LOGIN_URL == [path |-> "cookie", fields |-> {}]
LOGOUT_URL == [path |-> "cookie", fields |-> {}]
GET_INSTALLATIONS_URL ==
    [path |-> "installation/search?email={username}", fields |-> {"username"}]
OVERVIEW_URL ==
    [path |-> "installation/{guid}/overview", fields |-> INSTALLATION_URL.fields]
SMARTPLUG_URL ==
    [path |-> "installation/{guid}/smartplug/state", fields |-> INSTALLATION_URL.fields]
SET_ARMSTATE_URL ==
    [path |-> "installation/{guid}/armstate/code", fields |-> INSTALLATION_URL.fields]
HISTORY_URL ==
    [path |-> "installation/{guid}/eventlog", fields |-> INSTALLATION_URL.fields]
CLIMATE_URL ==
    [path |-> "installation/{guid}/climate/simple/search",
     fields |-> INSTALLATION_URL.fields]
GET_LOCKSTATE_URL ==
    [path |-> "installation/{guid}/doorlockstate/search",
     fields |-> INSTALLATION_URL.fields]
SET_LOCKSTATE_URL ==
    [path |-> "installation/{guid}/device/{deviceLabel}/{state}",
     fields |-> INSTALLATION_URL.fields \cup {"deviceLabel", "state"}]

\* str.format(**kwargs): every replacement field of the template takes the
\* keyword argument of its name; keyword arguments the template does not
\* name are ignored.
Format(template, kwargs) ==
    [base |-> BASE_URL,
     path |-> template.path,
     args |-> [f \in template.fields |-> kwargs[f]]]

\* The literal url of LOGIN_URL and LOGOUT_URL (no .format call).
Literal(template) == Format(template, [none |-> None])

\* ------------------------------------------------------------- responses
\* A response body: whether the deserializer can parse it, and the items it
\* then yields.  The server lists each token or installation once.
Lists ==
    {l \in UNION {[1..n -> Ids] : n \in 0..MaxLen} :
        \A i, j \in 1..Len(l) : l[i] = l[j] => i = j}
Malformed == [wellformed |-> FALSE, items |-> <<>>]
Texts == {Malformed} \cup {[wellformed |-> TRUE, items |-> l] : l \in Lists}

\* The pages the server answers with when it does not answer 200.
ErrorPages ==
    {[status_code |-> 503, title |-> "My Pages is temporarily unavailable"],
     [status_code |-> 503, title |-> "My Pages - Maintenance"],
     [status_code |-> 401, title |-> "Choose country"],
     [status_code |-> 401, title |-> "Log in"],
     [status_code |-> 500, title |-> "Error"]}

\* What requests.* hands back to the method: a response, or a raised
\* requests.exceptions.RequestException (failed).
OkReplies ==
    {[failed |-> FALSE, status_code |-> 200, title |-> "", text |-> t] : t \in Texts}
ErrorReplies ==
    {[failed |-> FALSE, status_code |-> p.status_code, title |-> p.title,
      text |-> Malformed] : p \in ErrorPages}
Responses == OkReplies \cup ErrorReplies
RequestException ==
    [failed |-> TRUE, status_code |-> 0, title |-> "", text |-> Malformed]

\* ----------------------------------------------------------- xmldeserializer
\* A deserialized domain object: its attributes come from the body's item.
Obj(n) == [cookie |-> n, giid |-> n]
NoValue == Obj(None)

\* deserialize(text): the list of objects of a parseable body; raises on a
\* body it cannot parse.
deserialize(text) ==
    IF text.wellformed
        THEN [raised |-> FALSE,
              value |-> [i \in 1..Len(text.items) |-> Obj(text.items[i])]]
        ELSE [raised |-> TRUE, value |-> <<>>]

\* ----------------------------------------------------------------- state
VARIABLES
    username,       \* Session._username
    password,       \* Session._password
    vid,            \* Session._vid
    giid,           \* Session._giid
    installations,  \* Session.installations
    pc,             \* per caller: "idle", or the function it is blocked in
    call,           \* per caller: the public method it called last
    sent,           \* per caller: the requests that call has sent
    rcvd,           \* per caller: what requests.* handed back to that call
    steps,          \* per caller: validate_response / deserialize calls made
    result,         \* per caller: how the call ended
    args,           \* per caller: the arguments of the method it is inside
    last_login,     \* history: the _vid held when login() last returned
    before          \* history, per caller: the fields when its call began

session == <<vid, giid, installations>>
credentials == <<username, password>>
history == <<last_login>>
vars == <<username, password, vid, giid, installations,
          pc, call, sent, rcvd, steps, result, args, last_login, before>>

\* The Session's fields as they are now.
Fields == [vid |-> vid, giid |-> giid, installations |-> installations]

\* Session.installations is None or a list.
NoInstallations == [isNone |-> TRUE, list |-> <<>>]
SomeInstallations(l) == [isNone |-> FALSE, list |-> l]

Pending == [kind |-> "pending", value |-> NoValue]
NotCalled == [kind |-> "none", value |-> NoValue]

\* The frame of a method that takes no argument, or no frame at all.
NoArgs == [none |-> None]

\* Session.__init__
Init ==
    /\ username \in Usernames
    /\ password \in Passwords
    /\ vid = None
    /\ giid = None
    /\ installations = NoInstallations
    /\ pc = [c \in Callers |-> "idle"]
    /\ call = [c \in Callers |-> "none"]
    /\ sent = [c \in Callers |-> <<>>]
    /\ rcvd = [c \in Callers |-> <<>>]
    /\ steps = [c \in Callers |-> <<>>]
    /\ result = [c \in Callers |-> NotCalled]
    /\ args = [c \in Callers |-> NoArgs]
    /\ last_login = None
    /\ before = [c \in Callers |->
          [vid |-> None, giid |-> None, installations |-> NoInstallations]]

\* ---------------------------------------------------------------- helpers
Last(s) == s[Len(s)]

\* list[-1] where the code has list[0].
First_last(list) == list[Len(list)]

\* list[0]
First(list) == list[1]

\* headers={'Cookie': 'vid={}'.format(self._vid)}
Cookie(v) == [name |-> "vid", value |-> v]
NoCookie == [name |-> "", value |-> None]

\* 'Basic ' + base64('CPE/{username}:{password}')
Basic(u, p) == [scheme |-> "Basic", userid |-> <<"CPE/", u>>, secret |-> p]
NoAuth == [scheme |-> "", userid |-> <<>>, secret |-> ""]

\* The keyword arguments of a requests.* call; timeout is never passed.
Request(method, url, auth, cookie, ctype, params, data) ==
    [method |-> method, url |-> url, Authorization |-> auth, Cookie |-> cookie,
     ContentType |-> ctype, params |-> params, data |-> data, timeout |-> None]

\* An except clause that raises ResponseError(ex).
request_exception_as_response_error(reply) ==
    IF reply.failed THEN "ResponseError" ELSE "ok"

\* A validate_response that never raises.
validate_response_swallowed(response) == "ok"

\* The except clause around every requests.* call: a RequestException is
\* re-raised as RequestError, a response goes on to validate_response.
request_exception(reply) == IF reply.failed THEN "RequestError" ELSE "ok"

\* validate_response: returns on status 200, raises ResponseError otherwise.
validate_response(response) ==
    IF response.status_code = 200 THEN "ok" ELSE "ResponseError"

\* A Session whose methods take a lock: no method starts while another
\* caller is inside one.
Start_locked(c, op, where, req) ==
    /\ \A d \in Callers : pc[d] = "idle"
    /\ pc' = [pc EXCEPT ![c] = where]
    /\ call' = [call EXCEPT ![c] = op]
    /\ sent' = [sent EXCEPT ![c] = <<req>>]
    /\ rcvd' = [rcvd EXCEPT ![c] = <<>>]
    /\ steps' = [steps EXCEPT ![c] = <<>>]
    /\ result' = [result EXCEPT ![c] = Pending]
    /\ before' = [before EXCEPT ![c] = Fields]

\* A method starts: it sends req and blocks in requests.*.
Start(c, op, where, req) ==
    /\ pc[c] = "idle"
    /\ pc' = [pc EXCEPT ![c] = where]
    /\ call' = [call EXCEPT ![c] = op]
    /\ sent' = [sent EXCEPT ![c] = <<req>>]
    /\ rcvd' = [rcvd EXCEPT ![c] = <<>>]
    /\ steps' = [steps EXCEPT ![c] = <<>>]
    /\ result' = [result EXCEPT ![c] = Pending]
    /\ before' = [before EXCEPT ![c] = Fields]

\* A method ends, returning value or raising kind.
Finish(c, kind, value, did) ==
    /\ pc' = [pc EXCEPT ![c] = "idle"]
    /\ steps' = [steps EXCEPT ![c] = steps[c] \o did]
    /\ result' = [result EXCEPT ![c] = [kind |-> kind, value |-> value]]
    /\ args' = [args EXCEPT ![c] = NoArgs]
    /\ UNCHANGED <<call, sent, rcvd, before>>

\* requests.* has handed back a reply to the caller blocked in where.
Delivered(c, where) ==
    /\ pc[c] = where
    /\ Len(rcvd[c]) = Len(sent[c])

\* The tail shared by the methods that end on
\*     self.validate_response(response)
\*     return deserialize(response.text)[0]
ReturnFirst(c) ==
    LET response == Last(rcvd[c])
        d == deserialize(response.text)
    IN  IF request_exception(response) # "ok"
            THEN Finish(c, request_exception(response), NoValue, <<>>)
        ELSE IF validate_response(response) # "ok"
            THEN Finish(c, validate_response(response), NoValue,
                        <<"validate_response">>)
        ELSE IF d.raised
            THEN Finish(c, "DeserializeError", NoValue,
                        <<"validate_response", "deserialize">>)
        ELSE IF Len(d.value) = 0
            THEN Finish(c, "IndexError", NoValue,
                        <<"validate_response", "deserialize">>)
        ELSE Finish(c, "returned", First(d.value),
                    <<"validate_response", "deserialize">>)

\* The tail shared by the methods that end on
\*     self.validate_response(response)
ReturnNone(c) ==
    LET response == Last(rcvd[c])
    IN  IF request_exception(response) # "ok"
            THEN Finish(c, request_exception(response), NoValue, <<>>)
        ELSE IF validate_response(response) # "ok"
            THEN Finish(c, validate_response(response), NoValue,
                        <<"validate_response">>)
        ELSE Finish(c, "returned", NoValue, <<"validate_response">>)

\* Python values handed to json.dumps: str, bool, list and dict (a dict as
\* the sequence of its <<key, value>> items, in the order of the literal).
PyStr(s) == [t |-> "str", v |-> s]
PyBool(b) == [t |-> "bool", v |-> b]
PyList(elements) == [t |-> "list", v |-> elements]
PyDict(items) == [t |-> "dict", v |-> items]

\* The JSON text of a str and of a bool, as a sequence of tokens.
JsonString(s) == <<"\"", s, "\"">>

\* repr(b): True / False.
JsonBool_repr(b) == IF b THEN <<"True">> ELSE <<"False">>

JsonBool(b) == IF b THEN <<"true">> ELSE <<"false">>

\* The texts of seqs, separated by commas.
RECURSIVE Join(_)
Join(seqs) ==
    IF Len(seqs) = 0 THEN <<>>
    ELSE IF Len(seqs) = 1 THEN seqs[1]
    ELSE seqs[1] \o <<",">> \o Join(Tail(seqs))

\* json.dumps(value): the JSON text of a value.
RECURSIVE dumps(_)
dumps(value) ==
    CASE value.t = "str" -> JsonString(value.v)
      [] value.t = "bool" -> JsonBool(value.v)
      [] value.t = "list" ->
            <<"[">> \o Join([i \in 1..Len(value.v) |-> dumps(value.v[i])]) \o <<"]">>
      [] value.t = "dict" ->
            <<"{">> \o Join([i \in 1..Len(value.v) |->
                        JsonString(value.v[i][1]) \o <<":">> \o dumps(value.v[i][2])])
                  \o <<"}">>
NoData == <<>>
NoParams == [none |-> None]

\* str(code) for the codes of Codes.
Str(code) == CASE code = 1234 -> "1234"

\* ------------------------------------------------------------ environment
\* The server answers the request a caller is blocked on.
ServerResponds(c) ==
    /\ pc[c] # "idle"
    /\ Len(rcvd[c]) < Len(sent[c])
    /\ \E response \in Responses :
          rcvd' = [rcvd EXCEPT ![c] = Append(rcvd[c], response)]
    /\ UNCHANGED <<credentials, history, session, pc, call, sent, steps, result,
                   args, before>>

\* The transport fails: requests.* raises a RequestException.
TransportFails(c) ==
    /\ pc[c] # "idle"
    /\ Len(rcvd[c]) < Len(sent[c])
    /\ rcvd' = [rcvd EXCEPT ![c] = Append(rcvd[c], RequestException)]
    /\ UNCHANGED <<credentials, history, session, pc, call, sent, steps, result,
                   args, before>>

\* requests raises Timeout (a RequestException) once the timeout the call
\* passed has run out; without a timeout argument it waits without limit.
TimeoutExpires(c) ==
    /\ pc[c] # "idle"
    /\ Len(rcvd[c]) < Len(sent[c])
    /\ Last(sent[c]).timeout # None
    /\ TransportFails(c)

\* ------------------------------------------------------------------ login
\* A login that wipes the password once the Authorization header is built.
login_forgets_password(c) ==
    /\ Start(c, "login", "login",
             Request("POST", Literal(LOGIN_URL), Basic(username, password),
                     NoCookie, "", NoParams, NoData))
    /\ args' = [args EXCEPT ![c] = NoArgs]
    /\ password' = ""
    /\ UNCHANGED <<username, history, session>>

login(c) ==
    /\ Start(c, "login", "login",
             Request("POST", Literal(LOGIN_URL), Basic(username, password),
                     NoCookie, "", NoParams, NoData))
    /\ args' = [args EXCEPT ![c] = NoArgs]
    /\ UNCHANGED <<credentials, history, session>>

\* login, from the except clause to the request of _get_installations.
login_response(c) ==
    LET response == Last(rcvd[c])
        d == deserialize(response.text)
    IN  /\ Delivered(c, "login")
        /\ UNCHANGED <<credentials, history, giid, installations>>
        /\ IF request_exception(response) # "ok"
              THEN /\ Finish(c, request_exception(response), NoValue, <<>>)
                   /\ UNCHANGED vid
           ELSE IF validate_response(response) # "ok"
              THEN /\ Finish(c, validate_response(response), NoValue,
                             <<"validate_response">>)
                   /\ UNCHANGED vid
           ELSE IF d.raised
              THEN /\ Finish(c, "DeserializeError", NoValue,
                             <<"validate_response", "deserialize">>)
                   /\ UNCHANGED vid
           ELSE IF Len(d.value) = 0
              THEN /\ Finish(c, "IndexError", NoValue,
                             <<"validate_response", "deserialize">>)
                   /\ UNCHANGED vid
           ELSE /\ vid' = First(d.value).cookie
                /\ pc' = [pc EXCEPT ![c] = "_get_installations"]
                /\ sent' = [sent EXCEPT ![c] = Append(sent[c],
                      Request("GET",
                              Format(GET_INSTALLATIONS_URL, [username |-> username]),
                              NoAuth, Cookie(vid'), "", NoParams, NoData))]
                /\ steps' = [steps EXCEPT ![c] =
                      steps[c] \o <<"validate_response", "deserialize">>]
                /\ UNCHANGED <<call, rcvd, result, args, before>>

\* _get_installations from its except clause, then the last line of login.
get_installations_response(c) ==
    LET response == Last(rcvd[c])
        d == deserialize(response.text)
    IN  /\ Delivered(c, "_get_installations")
        /\ UNCHANGED <<credentials, vid>>
        /\ IF request_exception(response) # "ok"
              THEN /\ Finish(c, request_exception(response), NoValue, <<>>)
                   /\ UNCHANGED <<giid, installations>>
           ELSE IF validate_response(response) # "ok"
              THEN /\ Finish(c, validate_response(response), NoValue,
                             <<"validate_response">>)
                   /\ UNCHANGED <<giid, installations>>
           ELSE IF d.raised
              THEN /\ Finish(c, "DeserializeError", NoValue,
                             <<"validate_response", "deserialize">>)
                   /\ UNCHANGED <<giid, installations>>
           ELSE /\ installations' = SomeInstallations(d.value)
                /\ IF Len(installations'.list) = 0
                      THEN /\ Finish(c, "IndexError", NoValue,
                                     <<"validate_response", "deserialize">>)
                           /\ UNCHANGED giid
                      ELSE /\ giid' = First(installations'.list).giid
                           /\ Finish(c, "returned", NoValue,
                                     <<"validate_response", "deserialize">>)
        /\ last_login' = IF result'[c].kind = "returned" THEN vid ELSE last_login

\* --------------------------------------------------------------- set_giid
set_giid(c, g) ==
    /\ pc[c] = "idle"
    /\ giid' = g
    /\ call' = [call EXCEPT ![c] = "set_giid"]
    /\ sent' = [sent EXCEPT ![c] = <<>>]
    /\ rcvd' = [rcvd EXCEPT ![c] = <<>>]
    /\ steps' = [steps EXCEPT ![c] = <<>>]
    /\ result' = [result EXCEPT ![c] = [kind |-> "returned", value |-> NoValue]]
    /\ before' = [before EXCEPT ![c] = Fields]
    /\ UNCHANGED <<credentials, history, vid, installations, pc, args>>

\* -------------------------------------------------------- data operations
get_overview(c) ==
    /\ Start(c, "get_overview", "get_overview",
             Request("GET", Format(OVERVIEW_URL, [guid |-> giid]),
                     NoAuth, Cookie(vid), "", NoParams, NoData))
    /\ args' = [args EXCEPT ![c] = NoArgs]
    /\ UNCHANGED <<credentials, history, session>>

\* A get_overview that drops the vid when the server answers with an error
\* page.
get_overview_response_logs_out(c) ==
    /\ Delivered(c, "get_overview")
    /\ ReturnFirst(c)
    /\ vid' = IF validate_response(Last(rcvd[c])) # "ok" THEN None ELSE vid
    /\ UNCHANGED <<credentials, history, giid, installations>>

get_overview_response(c) ==
    /\ Delivered(c, "get_overview")
    /\ ReturnFirst(c)
    /\ UNCHANGED <<credentials, history, session>>

set_smartplug_state(c, device_label, state) ==
    /\ Start(c, "set_smartplug_state", "set_smartplug_state",
             Request("POST", Format(SMARTPLUG_URL, [guid |-> giid]),
                     NoAuth, Cookie(vid), "application/json", NoParams,
                     dumps(PyList(<<PyDict(<<<<"deviceLabel", PyStr(device_label)>>,
                                                   <<"state", PyBool(state)>>>>)>>))))
    /\ args' = [args EXCEPT ![c] = [device_label |-> device_label, state |-> state]]
    /\ UNCHANGED <<credentials, history, session>>

set_smartplug_state_response(c) ==
    /\ Delivered(c, "set_smartplug_state")
    /\ ReturnNone(c)
    /\ UNCHANGED <<credentials, history, session>>

set_arm_state(c, code, state) ==
    /\ Start(c, "set_arm_state", "set_arm_state",
             Request("PUT", Format(SET_ARMSTATE_URL, [guid |-> giid]),
                     NoAuth, Cookie(vid), "application/json", NoParams,
                     dumps(PyDict(<<<<"code", PyStr(Str(code))>>,
                                    <<"state", PyStr(state)>>>>))))
    /\ args' = [args EXCEPT ![c] = [code |-> code, state |-> state]]
    /\ UNCHANGED <<credentials, history, session>>

set_arm_state_response(c) ==
    /\ Delivered(c, "set_arm_state")
    /\ ReturnNone(c)
    /\ UNCHANGED <<credentials, history, session>>

get_history(c, pagesize, offset) ==
    /\ Start(c, "get_history", "get_history",
             Request("GET", Format(HISTORY_URL, [guid |-> giid]),
                     NoAuth, Cookie(vid), "",
                     [offset |-> offset, pagesize |-> pagesize], NoData))
    /\ args' = [args EXCEPT ![c] = [pagesize |-> pagesize, offset |-> offset]]
    /\ UNCHANGED <<credentials, history, session>>

get_history_response(c) ==
    /\ Delivered(c, "get_history")
    /\ ReturnFirst(c)
    /\ UNCHANGED <<credentials, history, session>>

get_climate(c, device_label) ==
    /\ Start(c, "get_climate", "get_climate",
             Request("GET", Format(CLIMATE_URL, [guid |-> giid]),
                     NoAuth, Cookie(vid), "",
                     [deviceLabel |-> device_label], NoData))
    /\ args' = [args EXCEPT ![c] = [device_label |-> device_label]]
    /\ UNCHANGED <<credentials, history, session>>

get_climate_response(c) ==
    /\ Delivered(c, "get_climate")
    /\ ReturnFirst(c)
    /\ UNCHANGED <<credentials, history, session>>

get_lockstate(c) ==
    /\ Start(c, "get_lockstate", "get_lockstate",
             Request("GET", Format(GET_LOCKSTATE_URL, [guid |-> giid]),
                     NoAuth, Cookie(vid), "", NoParams, NoData))
    /\ args' = [args EXCEPT ![c] = NoArgs]
    /\ UNCHANGED <<credentials, history, session>>

get_lockstate_response(c) ==
    /\ Delivered(c, "get_lockstate")
    /\ ReturnFirst(c)
    /\ UNCHANGED <<credentials, history, session>>

set_lockstate(c, code, device_label, state) ==
    /\ Start(c, "set_lockstate", "set_lockstate",
             Request("PUT",
                     Format(GET_LOCKSTATE_URL,
                            [guid |-> giid, device_label |-> device_label,
                             state |-> state]),
                     NoAuth, Cookie(vid), "", NoParams,
                     dumps(PyDict(<<<<"code", PyStr(Str(code))>>>>))))
    /\ args' = [args EXCEPT ![c] = [code |-> code, device_label |-> device_label,
                                    state |-> state]]
    /\ UNCHANGED <<credentials, history, session>>

set_lockstate_response(c) ==
    /\ Delivered(c, "set_lockstate")
    /\ ReturnFirst(c)
    /\ UNCHANGED <<credentials, history, session>>

\* ----------------------------------------------------------------- logout
logout(c) ==
    /\ Start(c, "logout", "logout",
             Request("DELETE", Literal(LOGOUT_URL), NoAuth, Cookie(vid), "",
                     NoParams, NoData))
    /\ args' = [args EXCEPT ![c] = NoArgs]
    /\ UNCHANGED <<credentials, history, session>>

logout_response(c) ==
    /\ Delivered(c, "logout")
    /\ ReturnNone(c)
    /\ UNCHANGED <<credentials, history, session>>

\* ---------------------------------------------------------- specification
\* The code that runs once requests.* has handed back a reply.
Continue(c) ==
    \/ login_response(c)
    \/ get_installations_response(c)
    \/ get_overview_response(c)
    \/ set_smartplug_state_response(c)
    \/ set_arm_state_response(c)
    \/ get_history_response(c)
    \/ get_climate_response(c)
    \/ get_lockstate_response(c)
    \/ set_lockstate_response(c)
    \/ logout_response(c)

Next ==
    \E c \in MainCallers :
        \/ login(c)
        \/ login_response(c)
        \/ get_installations_response(c)
        \/ \E g \in Ids \cup {None} : set_giid(c, g)
        \/ get_overview(c)
        \/ get_overview_response(c)
        \/ \E l \in DeviceLabels, s \in PlugStates : set_smartplug_state(c, l, s)
        \/ set_smartplug_state_response(c)
        \/ \E k \in Codes, s \in ArmStates : set_arm_state(c, k, s)
        \/ set_arm_state_response(c)
        \/ \E n \in PageSizes, o \in Offsets : get_history(c, n, o)
        \/ get_history_response(c)
        \/ \E l \in DeviceLabels : get_climate(c, l)
        \/ get_climate_response(c)
        \/ get_lockstate(c)
        \/ get_lockstate_response(c)
        \/ \E k \in Codes, l \in DeviceLabels, s \in LockStates :
              set_lockstate(c, k, l, s)
        \/ set_lockstate_response(c)
        \/ logout(c)
        \/ logout_response(c)
        \/ ServerResponds(c)
        \/ TransportFails(c)

\* One caller using the Session synchronously.
Spec == Init /\ [][Next]_vars

\* The same, with what the interpreter and requests guarantee: a method that
\* has its reply runs on, and a timeout that was passed does expire.  Nothing
\* makes the server answer or the transport fail.
FairSpec ==
    /\ Spec
    /\ \A c \in MainCallers : WF_vars(Continue(c)) /\ WF_vars(TimeoutExpires(c))

\* Two callers share a new Session without locking: one runs login(), the
\* other get_overview(), each once and at any time.
ConcNext ==
    \/ \E c \in MainCallers :
          \/ call[c] = "none" /\ login(c)
          \/ login_response(c)
          \/ get_installations_response(c)
    \/ \E c \in Callers \ MainCallers :
          \/ call[c] = "none" /\ get_overview(c)
          \/ get_overview_response(c)
    \/ \E c \in Callers :
          \/ ServerResponds(c)
          \/ TransportFails(c)

ConcSpec == Init /\ [][ConcNext]_vars

\* ================================================================= claims
InstallationScoped ==
    {"get_overview", "set_smartplug_state", "set_arm_state", "get_history",
     "get_climate", "get_lockstate", "set_lockstate"}

\* The caller's last call is op and has ended.
Ended(c, op) == pc[c] = "idle" /\ call[c] = op

\* The reply is a response the server sent with a status other than 200.
Not200(reply) == ~reply.failed /\ reply.status_code # 200

\* C1: every request an installation-scoped call sends carries a vid and a
\* giid that are both set (a call made before login() has succeeded, or with
\* no installation id, sends nothing).
C1_ScopedRequestsAreAuthenticated ==
    \A c \in MainCallers :
        call[c] \in InstallationScoped =>
            \A i \in 1..Len(sent[c]) :
                /\ last_login # None
                /\ sent[c][i].Cookie.value # None
                /\ sent[c][i].url.args.guid # None

\* C2: when login() has returned, the Session holds the vid of the login
\* response, the non-empty installation list of the discovery response and
\* the giid of that list's first element; the discovery request came second
\* and carried the new vid.
C2_LoginPopulatesSession ==
    \A c \in MainCallers :
        (Ended(c, "login") /\ result[c].kind = "returned") =>
            /\ Len(sent[c]) = 2 /\ Len(rcvd[c]) = 2
            /\ sent[c][1].method = "POST"
            /\ sent[c][1].url = Literal(LOGIN_URL)
            /\ sent[c][1].Authorization = Basic(username, password)
            /\ vid # None
            /\ vid = rcvd[c][1].text.items[1]
            /\ sent[c][2].method = "GET"
            /\ sent[c][2].url.path = GET_INSTALLATIONS_URL.path
            /\ sent[c][2].Cookie = Cookie(vid)
            /\ ~installations.isNone
            /\ Len(installations.list) > 0
            /\ Len(installations.list) = Len(rcvd[c][2].text.items)
            /\ \A i \in 1..Len(installations.list) :
                  installations.list[i].giid = rcvd[c][2].text.items[i]
            /\ giid = rcvd[c][2].text.items[1]

\* C2 happens: a login() returned with a list of two installations.
C2_Witness ==
    /\ Ended(MainCaller, "login")
    /\ result[MainCaller].kind = "returned"
    /\ Len(installations.list) = 2
    /\ vid = 2

\* C3: when the server rejects the credentials, login() raises LoginError and
\* vid, giid and the installation list are all unset afterwards.
C3_RejectedLoginRaisesLoginError ==
    \A c \in MainCallers :
        (Ended(c, "login") /\ Len(rcvd[c]) = 1 /\ Not200(rcvd[c][1])) =>
            /\ result[c].kind = "LoginError"
            /\ vid = None
            /\ giid = None
            /\ installations.isNone

\* C4: after logout() has returned, vid and giid are unset.
C4_LogoutClearsAuthContext ==
    \A c \in MainCallers :
        (Ended(c, "logout") /\ result[c].kind = "returned") =>
            vid = None /\ giid = None

\* The table of the specification: failure-page title to error kind.
TitleError(title) ==
    CASE title = "My Pages is temporarily unavailable" -> "TemporarilyUnavailableError"
      [] title = "My Pages - Maintenance" -> "MaintenanceError"
      [] title \in {"Choose country", "Log in"} -> "LoggedOutError"
      [] OTHER -> "ResponseError"

\* C5: a call that got a response with a status other than 200 raises the
\* error kind the table gives for the page's title.
C5_ErrorKindFollowsTitle ==
    \A c \in MainCallers :
        (pc[c] = "idle" /\ Len(rcvd[c]) > 0 /\ Not200(Last(rcvd[c]))) =>
            result[c].kind = TitleError(Last(rcvd[c]).title)

\* C6: a request whose transport failed is the call's last one, the call
\* raises RequestError and nothing else, and no validate_response or
\* deserialize call is made for it.
C6_TransportFailureRaisesRequestError ==
    \A c \in MainCallers :
        \A i \in 1..Len(rcvd[c]) :
            rcvd[c][i].failed =>
                /\ i = Len(rcvd[c])
                /\ i = Len(sent[c])
                /\ Len(steps[c]) = 2 * (i - 1)
                /\ pc[c] = "idle" =>
                      result[c] = [kind |-> "RequestError", value |-> NoValue]

\* C6 happens: the installation-discovery request of a login() failed in the
\* transport and the login() has raised.
C6_Witness ==
    /\ Ended(MainCaller, "login")
    /\ Len(rcvd[MainCaller]) = 2
    /\ rcvd[MainCaller][2].failed
    /\ result[MainCaller].kind = "RequestError"

\* The calls that take the first element of the deserialized body.
ExpectsFirst ==
    {"login", "get_overview", "get_history", "get_climate", "get_lockstate",
     "set_lockstate"}

\* C7: a call that got a status-200 response whose body is malformed, or is an
\* empty list where a first element is expected, raises ResponseError (login
\* may raise LoginError).
C7_UnparseableBodyRaisesResponseError ==
    \A c \in MainCallers :
        (/\ pc[c] = "idle"
         /\ call[c] \in ExpectsFirst
         /\ Len(rcvd[c]) > 0
         /\ ~Last(rcvd[c]).failed
         /\ Last(rcvd[c]).status_code = 200
         /\ \/ ~Last(rcvd[c]).text.wellformed
            \/ Len(Last(rcvd[c]).text.items) = 0) =>
            \/ result[c].kind = "ResponseError"
            \/ call[c] = "login" /\ result[c].kind = "LoginError"

\* C8: every call terminates, also when the server never answers.
C8_EveryCallTerminates ==
    \A c \in MainCallers : (pc[c] # "idle") ~> (pc[c] = "idle")

\* A request that failed: in the transport, or with a status other than 200.
FailedRequest(reply) == reply.failed \/ reply.status_code # 200

\* C9: a data operation or logout() sends exactly one request, login() at
\* most two; a request that failed is the call's last one and the call
\* raises; no request is sent again.
C9_NoRetryNoSwallow ==
    \A c \in MainCallers :
        call[c] \in InstallationScoped \cup {"login", "logout"} =>
            /\ Len(sent[c]) >= 1
            /\ Len(sent[c]) <= (IF call[c] = "login" THEN 2 ELSE 1)
            /\ Len(rcvd[c]) <= Len(sent[c])
            /\ pc[c] = "idle" => Len(rcvd[c]) = Len(sent[c])
            /\ \A i, j \in 1..Len(sent[c]) : sent[c][i] = sent[c][j] => i = j
            /\ \A i \in 1..Len(rcvd[c]) :
                  FailedRequest(rcvd[c][i]) =>
                      /\ i = Len(sent[c])
                      /\ pc[c] = "idle" =>
                            result[c].kind \in {"RequestError", "ResponseError"}

\* C9 happens: a login() whose login request was answered 503 has raised
\* after that one request.
C9_Witness ==
    /\ Ended(MainCaller, "login")
    /\ Len(sent[MainCaller]) = 1
    /\ rcvd[MainCaller][1].status_code = 503
    /\ result[MainCaller].kind = "ResponseError"

\* C10: the DELETE request of logout() goes to the cookie endpoint and
\* carries the vid stored by the most recent successful login().
C10_LogoutCarriesLoginVid ==
    \A c \in MainCallers :
        (call[c] = "logout" /\ last_login # None) =>
            /\ Len(sent[c]) = 1
            /\ sent[c][1].method = "DELETE"
            /\ sent[c][1].url = Literal(LOGOUT_URL)
            /\ sent[c][1].Cookie = Cookie(last_login)

\* The JSON texts of a one-element list holding the object with the members
\* deviceLabel and state, in either member order.
SmartplugBodies(device_label, state) ==
    LET label == <<"\"", "deviceLabel", "\"", ":", "\"", device_label, "\"">>
        value == <<"\"", "state", "\"", ":", IF state THEN "true" ELSE "false">>
    IN  {<<"[", "{">> \o label \o <<",">> \o value \o <<"}", "]">>,
         <<"[", "{">> \o value \o <<",">> \o label \o <<"}", "]">>}

\* C11: while set_smartplug_state(device_label, state) waits for its answer
\* it has sent one POST to the smart-plug URL of the giid it found, whose
\* body is the JSON list of the one object
\* {deviceLabel: device_label, state: state}.
C11_SmartplugBody ==
    \A c \in MainCallers :
        pc[c] = "set_smartplug_state" =>
            /\ Len(sent[c]) = 1
            /\ sent[c][1].method = "POST"
            /\ sent[c][1].url.base = BASE_URL
            /\ sent[c][1].url.path = SMARTPLUG_URL.path
            /\ DOMAIN sent[c][1].url.args = {"guid"}
            /\ sent[c][1].url.args.guid = before[c].giid
            /\ sent[c][1].ContentType = "application/json"
            /\ sent[c][1].data
                  \in SmartplugBodies(args[c].device_label, args[c].state)

\* C11 happens: set_smartplug_state("switch1", True) was called after a
\* login() and its request is on the wire.
C11_Witness ==
    /\ pc[MainCaller] = "set_smartplug_state"
    /\ args[MainCaller] = [device_label |-> "switch1", state |-> TRUE]
    /\ giid # None
    /\ last_login # None
    /\ Len(sent[MainCaller]) = 1

\* C12: no step changes the username or the password.
C12_CredentialsImmutable ==
    [][username' = username /\ password' = password]_vars

\* C12 happens: after a login(), a set_giid-free data call and a logout()
\* the credentials are still those of the constructor.
C12_Witness ==
    /\ Ended(MainCaller, "logout")
    /\ result[MainCaller].kind = "returned"
    /\ last_login # None
    /\ username \in Usernames
    /\ password \in Passwords

\* C13: set_lockstate sends its PUT to the url of the set-lock-state
\* template, filled with the giid, the device label and the state, which is
\* not the url get_lockstate reads from.
C13_SetLockstateUrl ==
    \A c \in MainCallers :
        call[c] = "set_lockstate" =>
            /\ sent[c][1].method = "PUT"
            /\ sent[c][1].url.path = SET_LOCKSTATE_URL.path
            /\ DOMAIN sent[c][1].url.args = SET_LOCKSTATE_URL.fields
            /\ sent[c][1].url.path # GET_LOCKSTATE_URL.path

\* C14: when login() has raised, vid, giid and the installation list are as
\* they were before the call.
C14_LoginAllOrNothing ==
    \A c \in MainCallers :
        (Ended(c, "login") /\ result[c].kind # "returned") => Fields = before[c]

\* C15: the giid is unset or the giid of an installation in the stored list.
C15_GiidIsListed ==
    \/ giid = None
    \/ /\ ~installations.isNone
       /\ \E i \in 1..Len(installations.list) : installations.list[i].giid = giid

\* C16: during and after a data operation, vid, giid and the installation
\* list are as they were when it was called.
C16_DataOperationsKeepFields ==
    \A c \in MainCallers :
        call[c] \in InstallationScoped => Fields = before[c]

\* C16 happens: a get_overview() of a logged-in Session was answered with the
\* "Log in" page and has raised.
C16_Witness ==
    /\ Ended(MainCaller, "get_overview")
    /\ Last(rcvd[MainCaller]).title = "Log in"
    /\ result[MainCaller].kind = "ResponseError"
    /\ vid # None
    /\ giid # None
    /\ ~installations.isNone

\* C17: login() and the installation-scoped calls do not exclude each other:
\* while one caller's login() has written the vid and waits for installation
\* discovery, another caller that is idle can start get_overview(), and the
\* request it sends carries the fields as they are then.
C17_NoMutualExclusion ==
    \A c, d \in Callers :
        (c # d /\ pc[d] = "_get_installations") =>
            /\ pc[c] = "idle" => ENABLED get_overview(c)
            /\ (call[c] = "get_overview" /\ pc[c] # "idle") =>
                  /\ sent[c][1].Cookie.value = before[c].vid
                  /\ sent[c][1].url.args.guid = before[c].giid

\* C17 happens: the first login() of the Session has written its vid and is
\* still waiting for installation discovery; the other caller's get_overview
\* request is on the wire with that vid and the giid login() has not yet
\* written.
C17_Witness ==
    \E c, d \in Callers :
        /\ c # d
        /\ pc[d] = "_get_installations"
        /\ before[d].vid = None
        /\ before[d].giid = None
        /\ vid = rcvd[d][1].text.items[1]
        /\ giid = None
        /\ pc[c] = "get_overview"
        /\ sent[c][1].Cookie.value = vid
        /\ sent[c][1].url.args.guid = None

====
